---- MODULE Spec2Model ----
\* A model of the filesystem introspection tools of xload-agent:
\*   grep_tool  (src/src/xload_agent/tools/fs/grep.py)
\*   ls_tool    (src/src/xload_agent/tools/fs/ls.py)
\*   tree_tool  (src/src/xload_agent/tools/fs/tree.py)
\* and of its shell tool:
\*   bash_tool  (src/src/xload_agent/tools/terminal/bash.py)
\* Strings are sequences of one-character strings, so that glob matching,
\* lower-casing and lexical comparison are computed and not assumed.
EXTENDS Integers, Sequences, FiniteSets, TLC

\* ---------------------------------------------------------------- text

Upper ==
    << "A","B","C","D","E","F","G","H","I","J","K","L","M",
       "N","O","P","Q","R","S","T","U","V","W","X","Y","Z" >>

LowerCs ==
    << "a","b","c","d","e","f","g","h","i","j","k","l","m",
       "n","o","p","q","r","s","t","u","v","w","x","y","z" >>

\* The code point of a character (Python compares str by code point).
Ord(c) ==
    IF \E i \in 1..26 : Upper[i] = c
    THEN 64 + (CHOOSE i \in 1..26 : Upper[i] = c)
    ELSE IF \E i \in 1..26 : LowerCs[i] = c
    THEN 96 + (CHOOSE i \in 1..26 : LowerCs[i] = c)
    ELSE CASE c = "\n" -> 10
           [] c = " " -> 32
           [] c = "!" -> 33
           [] c = "(" -> 40
           [] c = "*" -> 42
           [] c = "-" -> 45
           [] c = "." -> 46
           [] c = "/" -> 47
           [] c = "?" -> 63
           [] c = "[" -> 91
           [] c = "]" -> 93
           [] c = "_" -> 95
           [] OTHER -> 0

\* str.lower() on one character.
LowerChar(c) ==
    IF \E i \in 1..26 : Upper[i] = c
    THEN LowerCs[CHOOSE i \in 1..26 : Upper[i] = c]
    ELSE c

\* str.lower()
Lower(s) ==
    [i \in 1..Len(s) |-> LowerChar(s[i])]

\* s < t for Python str: code-point lexicographic order.
RECURSIVE StrLess(_, _)
StrLess(s, t) ==
    IF t = << >> THEN FALSE
    ELSE IF s = << >> THEN TRUE
    ELSE IF Ord(Head(s)) # Ord(Head(t)) THEN Ord(Head(s)) < Ord(Head(t))
    ELSE StrLess(Tail(s), Tail(t))

\* ---------------------------------------------------------------- glob

\* The index of the "]" closing the class opened at p[1] = "[", or 0 when the
\* bracket is not closed (fnmatch then takes "[" literally).  A "]" directly
\* after "[" or "[!" belongs to the class.
ClassEnd(p) ==
    LET a == IF Len(p) >= 2 /\ p[2] = "!" THEN 3 ELSE 2
        b == IF Len(p) >= a /\ p[a] = "]" THEN a + 1 ELSE a
        js == {j \in b..Len(p) : p[j] = "]"}
    IN  IF js = {} THEN 0 ELSE CHOOSE j \in js : \A k \in js : j <= k

\* Whether character c is in the class body (the text between the brackets,
\* without a leading "!"): a listed character or inside a range x-y.
InClass(c, body) ==
    \/ \E k \in 1..Len(body) :
          /\ body[k] = c
          /\ ~(body[k] = "-" /\ k > 1 /\ k < Len(body))
    \/ \E k \in 1..(Len(body) - 2) :
          /\ body[k + 1] = "-"
          /\ Ord(body[k]) <= Ord(c)
          /\ Ord(c) <= Ord(body[k + 2])

\* fnmatch.fnmatch(name, pattern) on POSIX (normcase is the identity): the
\* whole name must match; "*" any run, "?" one character, "[...]" a class.
RECURSIVE FnMatch(_, _)
FnMatch(n, p) ==
    IF p = << >> THEN n = << >>
    ELSE IF Head(p) = "*"
    THEN FnMatch(n, Tail(p)) \/ (n # << >> /\ FnMatch(Tail(n), p))
    ELSE IF Head(p) = "?"
    THEN n # << >> /\ FnMatch(Tail(n), Tail(p))
    ELSE IF Head(p) = "[" /\ ClassEnd(p) # 0
    THEN LET e == ClassEnd(p)
             neg == p[2] = "!"
             body == SubSeq(p, IF neg THEN 3 ELSE 2, e - 1)
         IN  /\ n # << >>
             /\ (InClass(Head(n), body) # neg)
             /\ FnMatch(Tail(n), SubSeq(p, e + 1, Len(p)))
    ELSE n # << >> /\ Head(n) = Head(p) /\ FnMatch(Tail(n), Tail(p))

\* ---------------------------------------------------------- filesystem

\* File names and contents of the modelled workspace.
Line_foo_bar == <<"f","o","o"," ","b","a","r","\n">>
Line_FOO == <<"F","O","O","\n">>
Line_xfoo == <<"x","f","o","o">>
Line_foo == <<"f","o","o","\n">>
Line_bar == <<"b","a","r","\n">>
\* more than ten characters before and after the first "foo", and a second
\* "foo" at the end
Line_long ==
    <<"a","b","c","d","e","f","g","h","i","j","k","l","f","o","o",
      "m","n","o","p","q","r","s","t","u","v","w","x","y","z","f","o","o","\n">>

Dir(name, parent) ==
    [name |-> name, kind |-> "dir", parent |-> parent, lines |-> << >>,
     access |-> "ok"]

File(name, parent, lines) ==
    [name |-> name, kind |-> "file", parent |-> parent, lines |-> lines,
     access |-> "ok"]

\* The entries below the root, by id.  parent 0 is the root directory.
\*   w/ b.txt  A/ (a.py  C/ (D/ (e.py)))  c.txt  B/ (a.log)  .git/ (cfg.py)
\*      x.swp  README.md  a/
Entries ==
    << File(<<"b",".","t","x","t">>, 0, <<Line_foo_bar, Line_FOO, Line_xfoo>>),
       Dir(<<"A">>, 0),
       File(<<"c",".","t","x","t">>, 0, <<Line_long>>),
       Dir(<<"B">>, 0),
       Dir(<<".","g","i","t">>, 0),
       File(<<"c","f","g",".","p","y">>, 5, <<Line_foo>>),
       File(<<"x",".","s","w","p">>, 0, <<Line_foo>>),
       File(<<"a",".","p","y">>, 2, <<Line_foo, Line_bar, Line_foo>>),
       Dir(<<"C">>, 2),
       Dir(<<"D">>, 9),
       File(<<"e",".","p","y">>, 10, <<Line_foo>>),
       File(<<"R","E","A","D","M","E",".","m","d">>, 0, << >>),
       Dir(<<"a">>, 0),
       File(<<"a",".","l","o","g">>, 4, <<Line_foo>>) >>

NNodes == Len(Entries)

Nodes == 0..NNodes

BaseFs ==
    [i \in Nodes |-> IF i = 0 THEN Dir(<<"w">>, 0 - 1) ELSE Entries[i]]

\* What can go wrong with one entry: enumerating a directory or opening a file
\* is refused ("denied": PermissionError) or fails otherwise ("ioerr": any
\* other OSError, e.g. the entry vanished after it was seen); reading a file
\* fails after its first line ("readerr"); the entry is neither a regular
\* file nor a directory ("other": a broken symlink).
FaultModes(f, i) ==
    IF f[i].kind = "dir"
    THEN {"denied", "ioerr"} \cup
         (IF \E j \in Nodes : f[j].parent = i THEN {} ELSE {"other"})
    ELSE {"denied", "ioerr", "readerr", "other"}

WithFault(f, i, m) ==
    IF m = "none" THEN f
    ELSE IF m = "other"
    THEN [f EXCEPT ![i].kind = "other", ![i].access = "ioerr"]
    ELSE IF m = "gone"
    THEN [f EXCEPT ![i].kind = "gone", ![i].access = "ioerr"]
    ELSE IF m = "swapped"
    THEN [f EXCEPT ![i].kind = IF f[i].kind = "dir" THEN "file" ELSE "dir",
                   ![i].lines = << >>]
    ELSE [f EXCEPT ![i].access = m]

\* The faults tried: none, or one faulty entry.
Faults ==
    {[node |-> 0, mode |-> "none"]} \cup
    {f \in [node : Nodes, mode : {"denied", "ioerr", "readerr", "other"}] :
        f.mode \in FaultModes(BaseFs, f.node)}

\* The entries another process changes while a call runs: the file c.txt and
\* the empty directory a.
ChangeNodes == {3, 13}

\* What another process does to an entry: it replaces a file by an empty
\* directory or an empty directory by an empty file ("swapped"), or it deletes
\* the entry ("gone"); an entry that is gone at first can be created.
RaceFaults ==
    {[node |-> 0, mode |-> "none"]} \cup
    [node : ChangeNodes, mode : {"swapped", "gone"}]

\* The workspace under each fault.
FsTable ==
    [f \in Faults \cup RaceFaults |-> WithFault(BaseFs, f.node, f.mode)] @@ << >>

\* ------------------------------------------------------ pattern lists

\* match / file_pattern lists; << >> stands for None and for [].
MatchArgs ==
    { << >>,
      << <<"*",".","p","y">> >>,
      << <<"A">>, <<"*",".","p","y">>, <<"[","a","-","c","]","*">> >> }

\* ignore lists; << >> stands for None and for [].
IgnoreArgs ==
    { << >>,
      << <<"A">> >>,
      << <<"?",".","t","x","t">>, <<"z","z">> >> }

Range(s) == {s[k] : k \in 1..Len(s)}

\* DEFAULT_IGNORE_PATTERNS of grep_tool.
GrepDefaultIgnore ==
    << <<"*",".","p","y","c">>,
       <<"_","_","p","y","c","a","c","h","e","_","_">>,
       <<".","g","i","t">>,
       <<".","s","v","n">>,
       <<".","h","g">>,
       <<".","D","S","_","S","t","o","r","e">>,
       <<"*",".","t","m","p">>,
       <<"*",".","t","e","m","p">>,
       <<"*",".","l","o","g">>,
       <<".","i","d","e","a">>,
       <<"*",".","v","s","c","o","d","e">>,
       <<"n","o","d","e","_","m","o","d","u","l","e","s">> >>

\* DEFAULT_IGNORE_PATTERNS of ls_tool.
LsDefaultIgnore ==
    << <<"*",".","p","y","c">>,
       <<"_","_","p","y","c","a","c","h","e","_","_">>,
       <<"*",".","s","w","p">>,
       <<".","D","S","_","S","t","o","r","e">>,
       <<".","g","i","t">>,
       <<".","s","v","n">>,
       <<".","h","g">>,
       <<"*",".","t","m","p">>,
       <<"*",".","t","e","m","p">>,
       <<"*",".","l","o","g">>,
       <<".","i","d","e","a">>,
       <<"*",".","v","s","c","o","d","e">>,
       <<"n","o","d","e","_","m","o","d","u","l","e","s">> >>

\* DEFAULT_IGNORE_PATTERNS of tree_tool.
TreeDefaultIgnore ==
    << <<"*",".","p","y","c">>,
       <<"_","_","p","y","c","a","c","h","e","_","_">>,
       <<"*",".","s","w","p">>,
       <<".","D","S","_","S","t","o","r","e">>,
       <<".","g","i","t">>,
       <<".","s","v","n">>,
       <<".","h","g">>,
       <<"*",".","t","m","p">>,
       <<"*",".","t","e","m","p">>,
       <<"*",".","l","o","g">>,
       <<".","i","d","e","a">>,
       <<"*",".","v","s","c","o","d","e">>,
       <<"n","o","d","e","_","m","o","d","u","l","e","s">> >>

\* fnmatch.fnmatch on the names and patterns that occur: FnMatch, tabulated.
GlobTable ==
    [x \in {BaseFs[i].name : i \in Nodes} \X
           UNION {Range(l) : l \in {GrepDefaultIgnore, LsDefaultIgnore,
                                    TreeDefaultIgnore}
                                   \cup MatchArgs \cup IgnoreArgs}
       |-> FnMatch(x[1], x[2])] @@ << >>

fnmatch(n, p) == GlobTable[<<n, p>>]

\* any(fnmatch.fnmatch(name, pattern) for pattern in patterns)
MatchesAny(n, patterns) ==
    \E k \in 1..Len(patterns) : fnmatch(n, patterns[k])

\* (ignore or []) + DEFAULT_IGNORE_PATTERNS; None is modelled as << >>, which
\* the code treats exactly like an empty list.
GrepIgnorePatterns(ignore) ==
    ignore \o GrepDefaultIgnore

\* LsIgnorePatterns with a caller's list replacing the defaults
LsIgnorePatternsCallerOnly(ignore) ==
    IF ignore # << >> THEN ignore ELSE LsDefaultIgnore

LsIgnorePatterns(ignore) ==
    ignore \o LsDefaultIgnore

TreeIgnorePatterns(ignore) ==
    ignore \o TreeDefaultIgnore

VARIABLES
    fault,       \* which entry of the filesystem is faulty, and how
    order,       \* the order in which the OS enumerates a directory
    pc,          \* where the running call is
    args,        \* the arguments of the call
    result,      \* what the call returned (or the exception it raised)
    enumerated,  \* directories whose enumeration was attempted
    opened,      \* files whose open was attempted
    tstack,      \* tree_tool: the frames of _walk_directory, innermost last
    tree_out,    \* tree_tool: the nodes built so far, in order of creation
    matches,     \* grep_tool: the list matches
    stats,       \* grep_tool: the dict stats
    paths,       \* grep_tool: the stack of Path.walk, next directory last
    gfiles,      \* grep_tool: the files of the current directory not yet visited
    gcur,        \* grep_tool: the file search_file has open (NoNode: none)
    gline,       \* grep_tool: the number of the line read next from gcur
    file_matched, \* grep_tool: search_file's flag file_matched
    scanned,     \* <<file, line>> pairs the regex was applied to
    keep_alive_terminal, \* bash_tool: the global (NoTerminal: None)
    terminals,   \* the state of each BashTerminal object, by id
    close_calls, \* how often close() was called on each terminal
    executed,    \* <<terminal, its state>> for each execute() call made
    bash_calls,  \* the number of bash_tool calls made
    bash_result  \* the status bash_tool returned last

\* The filesystem the call runs on: node id -> entry.
fs == FsTable[fault]

\* Path.is_file(), Path.is_dir()
is_file(i) == fs[i].kind = "file"

is_dir(i) == fs[i].kind = "dir"

RECURSIVE SeqAsc(_)
SeqAsc(S) ==
    IF S = {} THEN << >>
    ELSE LET m == CHOOSE x \in S : \A y \in S : x <= y
         IN  <<m>> \o SeqAsc(S \ {m})

Reverse(s) ==
    [i \in 1..Len(s) |-> s[Len(s) + 1 - i]]

\* The entries of directory d, in the order the OS hands them out.
Children(d) ==
    LET asc == SeqAsc({j \in Nodes :
                         j # 0 /\ fs[j].parent = d /\ fs[j].kind # "gone"})
    IN  IF order = "fwd" THEN asc ELSE Reverse(asc)

\* ------------------------------------------------------------------ ls

\* key=lambda x: (x.is_file(), x.name.lower()), compared as Python tuples.
SortKeyLess(a, b) ==
    \/ ~is_file(a) /\ is_file(b)
    \/ /\ is_file(a) = is_file(b)
       /\ StrLess(Lower(fs[a].name), Lower(fs[b].name))

\* list.sort(key=...): stable, so x goes behind every element not above it.
InsertSorted(x, s) ==
    LET hi == {k \in 1..Len(s) : SortKeyLess(x, s[k])}
        at == IF hi = {} THEN Len(s) + 1 ELSE CHOOSE k \in hi : \A j \in hi : k <= j
    IN  SubSeq(s, 1, at - 1) \o <<x>> \o SubSeq(s, at, Len(s))

RECURSIVE SortItems(_)
SortItems(s) ==
    IF s = << >> THEN << >>
    ELSE InsertSorted(s[Len(s)], SortItems(SubSeq(s, 1, Len(s) - 1)))

RECURSIVE SelectIds(_, _, _)
\* [x for x in s if keep(x)], keep given as the set of ids kept
SelectIds(s, keep, k) ==
    IF k > Len(s) THEN << >>
    ELSE (IF s[k] \in keep THEN <<s[k]>> ELSE << >>) \o SelectIds(s, keep, k + 1)

\* LsMatchFilter that lets every item pass
LsMatchFilterOff(items, match) ==
    items

\* the match filter of ls_tool: an empty or absent list filters nothing
LsMatchFilter(items, match) ==
    IF match # << >>
    THEN SelectIds(items, {i \in Nodes : MatchesAny(fs[i].name, match)}, 1)
    ELSE items

\* the ignore filter of ls_tool
LsIgnoreFilter(items, ignore) ==
    SelectIds(items,
              {i \in Nodes : ~MatchesAny(fs[i].name, LsIgnorePatterns(ignore))}, 1)

\* item.name + "/" for a directory, item.name otherwise
LsRender(i) ==
    IF is_dir(i) THEN fs[i].name \o <<"/">> ELSE fs[i].name

\* ---------------------------------------------------------- the calls

\* A path argument: absolute or not, and the entry it names (NoNode: none).
NoNode == NNodes + 1

\* Path.is_absolute(), Path.exists()
is_absolute(path) == path.absolute

exists(path) == path.node # NoNode

NoResult ==
    [status |-> "none", msg |-> "", items |-> << >>, count |-> 0,
     max_depth |-> 0, directories |-> 0, files |-> 0, total |-> 0]

\* {"status": "error", "message": ...}
Err(msg) ==
    [NoResult EXCEPT !.status = "error", !.msg = msg]

\* An exception that leaves the tool function.
Raised(msg) ==
    [NoResult EXCEPT !.status = "raised", !.msg = msg]

ls_tool(path, match, ignore) ==
    IF ~is_absolute(path) THEN Err("not_absolute")
    ELSE IF ~exists(path) THEN Err("not_found")
    ELSE IF ~is_dir(path.node) THEN Err("not_dir")
    ELSE IF fs[path.node].access = "denied" THEN Err("no_permission")
    ELSE IF fs[path.node].access # "ok" THEN Err("exception")
    ELSE LET sorted == SortItems(Children(path.node))
             kept == LsIgnoreFilter(LsMatchFilter(sorted, match), ignore)
         IN  [NoResult EXCEPT
                !.status = "success",
                !.items = [k \in 1..Len(kept) |-> LsRender(kept[k])],
                !.count = Len(kept)]

\* The directories ls_tool enumerates: the listed one, once the path checks
\* have passed.
LsEnumerates(path) ==
    IF is_absolute(path) /\ exists(path) /\ is_dir(path.node)
    THEN {path.node} ELSE {}

\* ------------------------------------------------------------- inputs

\* path arguments: nothing, the root w, the file b.txt, the directories A
\* and .git; relative paths to nothing and to the root
PathArgs ==
    [absolute : {TRUE}, node : {NoNode, 0, 1, 2, 5}] \cup
    [absolute : {FALSE}, node : {NoNode, 0}]

\* regex patterns: a word, a letter followed by a newline character, and an
\* unbalanced parenthesis
PatternArgs ==
    { <<"f","o","o">>, <<"o","\n">>, <<"(">> }

\* file_pattern lists of grep_tool; << >> stands for None and for [].
FilePatternArgs ==
    { << >>, << <<"*",".","p","y">> >> }

\* ignore lists given to grep_tool
GrepIgnoreArgs ==
    { << >>, << <<"A">> >> }

\* max_results values: negative, zero, and up to MaxResultsArg
NegResultsArg == 1

MaxResultsArg == 3

MaxResultsArgs == (0 - NegResultsArg)..MaxResultsArg

\* requested max_depth values: below, inside and above the allowed range
MaxDepthArg == 4

DepthArgs == (0 - 1)..MaxDepthArg

NoArgs ==
    [tool |-> "none", path |-> [absolute |-> FALSE, node |-> NoNode],
     pattern |-> << >>, recursive |-> FALSE, file_pattern |-> << >>,
     ignore |-> << >>, case_sensitive |-> FALSE, max_results |-> 0,
     max_depth |-> 0, match |-> << >>]

grepvars == <<matches, stats, paths, gfiles, gcur, gline, file_matched, scanned>>

bashvars ==
    <<keep_alive_terminal, terminals, close_calls, executed, bash_calls,
      bash_result>>

treevars == <<tstack, tree_out>>

vars ==
    <<fault, order, pc, args, result, enumerated, opened, treevars, grepvars,
      bashvars>>

\* The number of bash_tool calls followed.
MaxBashCalls == 5

\* The BashTerminal objects: each call constructs at most one.
TerminalIds == 1..MaxBashCalls

\* keep_alive_terminal = None
NoTerminal == 0

\* stats as grep_tool creates it
NoStats ==
    [files_searched |-> 0, files_matched |-> 0, lines_matched |-> 0,
     results_truncated |-> FALSE]

\* No call has been made yet.
NoCall ==
    /\ pc = "idle"
    /\ args = NoArgs
    /\ result = NoResult
    /\ enumerated = {}
    /\ opened = {}
    /\ tstack = << >>
    /\ tree_out = << >>
    /\ matches = << >>
    /\ stats = NoStats
    /\ paths = << >>
    /\ gfiles = << >>
    /\ gcur = NoNode
    /\ gline = 0
    /\ file_matched = FALSE
    /\ scanned = {}
    /\ keep_alive_terminal = NoTerminal
    /\ terminals = [t \in TerminalIds |-> "unborn"]
    /\ close_calls = [t \in TerminalIds |-> 0]
    /\ executed = {}
    /\ bash_calls = 0
    /\ bash_result = "none"

Init ==
    /\ fault \in Faults
    /\ order \in {"fwd", "rev"}
    /\ NoCall

\* ls_tool(path, match, ignore): one call, start to return.
LsCall ==
    /\ pc = "idle"
    /\ \E path \in PathArgs, match \in MatchArgs, ignore \in IgnoreArgs :
          /\ args' = [NoArgs EXCEPT !.tool = "ls", !.path = path,
                                    !.match = match, !.ignore = ignore]
          /\ result' = ls_tool(path, match, ignore)
          /\ enumerated' = LsEnumerates(path)
    /\ pc' = "done"
    /\ UNCHANGED <<bashvars, fault, order, opened, treevars, grepvars>>

\* ---------------------------------------------------------------- tree

MinTreeDepth == 1

MaxTreeDepth == 3

Min(a, b) == IF a <= b THEN a ELSE b

Max(a, b) == IF a >= b THEN a ELSE b

\* ClampDepth without the upper limit
ClampDepthNoUpper(d) ==
    Max(MinTreeDepth, d)

\* max_depth = min(max(1, max_depth), 3)
ClampDepth(d) ==
    Min(Max(MinTreeDepth, d), MaxTreeDepth)

\* the ignore test of _walk_directory
TreeShouldIgnore(i, ignore) ==
    MatchesAny(fs[i].name, TreeIgnorePatterns(ignore))

\* TreeMatched that lets every directory pass, to look for matches inside
TreeMatchedFilesOnly(i, match) ==
    (match # << >> /\ ~is_dir(i)) => MatchesAny(fs[i].name, match)

\* the match test of _walk_directory: passes when no list is given
TreeMatched(i, match) ==
    match # << >> => MatchesAny(fs[i].name, match)

\* directory_items.sort(key=lambda x: (x.is_file(), x.name.lower()))
TreeSortItems(s) ==
    SortItems(s)

\* item_info of entry i at nesting depth d, inside node `up` (0: top level)
ItemInfo(i, d, up) ==
    [id |-> i,
     type |-> IF is_dir(i) THEN "directory" ELSE "file",
     depth |-> d, up |-> up, children |-> FALSE, error |-> ""]

\* the node the except branches append for directory i, whose listing failed
ErrorInfo(i, d, up) ==
    [id |-> i, type |-> "directory", depth |-> d, up |-> up,
     children |-> FALSE,
     error |-> IF fs[i].access = "denied" THEN "Permission denied" ELSE "error"]

\* whether _walk_directory expands item i met at depth d
TreeExpands(i, d, max_depth) ==
    is_dir(i) /\ d < max_depth

\* No item_info in hand.
NoItem ==
    [id |-> NoNode, type |-> "", depth |-> 0, up |-> 0, children |-> FALSE,
     error |-> ""]

\* The frame of _walk_directory(i, d), entered for the node at index `up`:
\* the sorted listing, the position in it, and the item_info built for the
\* item in hand (NoItem before it is built).
Frame(i, d, up) ==
    [dir |-> i, depth |-> d, up |-> up,
     items |-> TreeSortItems(Children(i)), k |-> 1, info |-> NoItem]

\* CountItems that does not descend into the children lists
CountItemsTopLevel(t, up, type) ==
    Cardinality({n \in 1..Len(t) : t[n].up = up /\ t[n].type = type})

\* _count_items: the nodes of one kind in the children lists below `up`
RECURSIVE CountItems(_, _, _)
CountItems(t, up, type) ==
    LET kids == {n \in 1..Len(t) : t[n].up = up}
        Sum[S \in SUBSET kids] ==
            IF S = {} THEN 0
            ELSE LET n == CHOOSE x \in S : TRUE
                 IN  (IF t[n].type = type THEN 1 ELSE 0)
                     + (IF t[n].type = "directory" /\ t[n].children
                        THEN CountItems(t, n, type) ELSE 0)
                     + Sum[S \ {n}]
    IN  Sum[kids]

\* The path checks of tree_tool, in the order it makes them.
TreeValidate(path) ==
    IF ~is_absolute(path) THEN "not_absolute"
    ELSE IF ~exists(path) THEN "not_found"
    ELSE IF ~is_dir(path.node) THEN "not_dir"
    ELSE "ok"

\* tree_tool up to the first _walk_directory: clamp, path checks, and the
\* listing of the root.
TreeCall ==
    /\ pc = "idle"
    /\ \E path \in PathArgs, d \in DepthArgs,
          match \in MatchArgs, ignore \in IgnoreArgs :
          /\ args' = [NoArgs EXCEPT !.tool = "tree", !.path = path,
                                    !.max_depth = d,
                                    !.match = match, !.ignore = ignore]
          /\ IF TreeValidate(path) # "ok"
             THEN /\ result' = Err(TreeValidate(path))
                  /\ pc' = "done"
                  /\ UNCHANGED <<enumerated, tstack, tree_out>>
             ELSE /\ enumerated' = {path.node}
                  /\ pc' = "tree"
                  /\ result' = [result EXCEPT !.max_depth = ClampDepth(d)]
                  /\ IF fs[path.node].access = "ok"
                     THEN /\ tstack' = <<Frame(path.node, 1, 0)>>
                          /\ tree_out' = << >>
                     ELSE /\ tstack' = << >>
                          /\ tree_out' = <<ErrorInfo(path.node, 1, 0)>>
    /\ UNCHANGED <<bashvars, fault, order, opened, grepvars>>

\* The loop "for item in directory_items" of the innermost _walk_directory
\* up to item_info: the return when the items are exhausted, the ignore and
\* match tests, and item_info with the type read from the first is_dir().
TreeStep ==
    /\ pc = "tree"
    /\ tstack # << >>
    /\ tstack[Len(tstack)].info = NoItem
    /\ LET f == tstack[Len(tstack)]
           rest == SubSeq(tstack, 1, Len(tstack) - 1)
           adv == [f EXCEPT !.k = f.k + 1]
       IN  IF f.k > Len(f.items)
           THEN tstack' = rest
           ELSE LET i == f.items[f.k]
                IN  IF \/ TreeShouldIgnore(i, args.ignore)
                       \/ ~TreeMatched(i, args.match)
                    THEN tstack' = rest \o <<adv>>
                    ELSE tstack' = rest \o
                           <<[f EXCEPT !.info = ItemInfo(i, f.depth, f.up)]>>
    /\ UNCHANGED <<bashvars, fault, order, pc, args, result, enumerated, opened,
                   tree_out, grepvars>>

\* The rest of the loop body for the item in hand: the second is_dir() and
\* the depth test, the recursive call with its listing (or the error node
\* its except branches build), and items.append(item_info).
TreeDescend ==
    /\ pc = "tree"
    /\ tstack # << >>
    /\ tstack[Len(tstack)].info # NoItem
    /\ LET f == tstack[Len(tstack)]
           rest == SubSeq(tstack, 1, Len(tstack) - 1)
           adv == [f EXCEPT !.k = f.k + 1, !.info = NoItem]
           i == f.info.id
       IN  IF ~TreeExpands(i, f.depth, result.max_depth)
           THEN /\ tstack' = rest \o <<adv>>
                /\ tree_out' = Append(tree_out, f.info)
                /\ UNCHANGED enumerated
           ELSE LET me == Len(tree_out) + 1
                    node == [f.info EXCEPT !.children = TRUE]
                IN  /\ enumerated' = enumerated \cup {i}
                    /\ IF fs[i].access = "ok"
                       THEN /\ tree_out' = Append(tree_out, node)
                            /\ tstack' = rest \o
                                 <<adv, Frame(i, f.depth + 1, me)>>
                       ELSE /\ tree_out' = tree_out \o
                                 <<node, ErrorInfo(i, f.depth + 1, me)>>
                            /\ tstack' = rest \o <<adv>>
    /\ UNCHANGED <<bashvars, fault, order, pc, args, result, opened, grepvars>>

\* Another process changes one entry of the walked directories while
\* tree_tool runs: it replaces or deletes an entry, or undoes that (which
\* creates an entry that was gone).
FsChange ==
    /\ pc = "tree"
    /\ IF fault.mode = "none"
       THEN fault' \in RaceFaults \ {fault}
       ELSE fault' = [node |-> 0, mode |-> "none"]
    /\ UNCHANGED <<bashvars, order, pc, args, result, enumerated, opened,
                   treevars, grepvars>>

\* _count_items and the return of tree_tool.
TreeReturn ==
    /\ pc = "tree"
    /\ tstack = << >>
    /\ LET dirs == CountItems(tree_out, 0, "directory")
           files == CountItems(tree_out, 0, "file")
       IN  result' = [NoResult EXCEPT !.status = "success",
                                      !.max_depth = result.max_depth,
                                      !.directories = dirs,
                                      !.files = files,
                                      !.total = dirs + files]
    /\ pc' = "done"
    /\ UNCHANGED <<bashvars, fault, order, args, enumerated, opened, treevars, grepvars>>

\* ---------------------------------------------------------------- grep

\* The number of characters of context on each side of a match.
ContextChars == 10

\* re.compile(pattern, flags): the patterns used here are literal text, and
\* the one metacharacter among them is an unbalanced "(", which re rejects.
RegexCompiles(pattern) ==
    \A k \in 1..Len(pattern) : pattern[k] # "("

\* RegexSearch that reports the rightmost occurrence
RegexSearchLast(pattern, case_sensitive, line) ==
    LET fold(t) == IF case_sensitive THEN t ELSE Lower(t)
        n == Len(pattern)
        hits == {a \in 0..(Len(line) - n) :
                    fold(SubSeq(line, a + 1, a + n)) = fold(pattern)}
    IN  IF hits = {} THEN 0 - 1
        ELSE CHOOSE a \in hits : \A b \in hits : a >= b

\* regex_pattern.search(line).span()[0] for a literal pattern: the start of
\* the leftmost occurrence (0-based), or -1 for no match.  Without
\* case_sensitive the pattern is compiled with re.IGNORECASE.
RegexSearch(pattern, case_sensitive, line) ==
    LET fold(t) == IF case_sensitive THEN t ELSE Lower(t)
        n == Len(pattern)
        hits == {a \in 0..(Len(line) - n) :
                    fold(SubSeq(line, a + 1, a + n)) = fold(pattern)}
    IN  IF hits = {} THEN 0 - 1
        ELSE CHOOSE a \in hits : \A b \in hits : a <= b

\* line.rstrip('\n\r')
RECURSIVE RStrip(_)
RStrip(line) ==
    IF line # << >> /\ line[Len(line)] \in {"\n", "\r"}
    THEN RStrip(SubSeq(line, 1, Len(line) - 1))
    ELSE line

\* s[a:b] for 0 <= a, 0 <= b
Slice(s, a, b) ==
    SubSeq(s, a + 1, Min(b, Len(s)))

\* match_result for a match of `pattern` at 0-based offset `at` of `line`
MatchResult(f, line_num, line, at, pattern) ==
    LET line_content == RStrip(line)
        match_start == at
        match_end == at + Len(pattern)
        context_start == Max(0, match_start - ContextChars)
        context_end == Min(Len(line_content), match_end + ContextChars)
    IN  [file |-> f, line |-> line_num, content |-> line_content,
         match_start |-> match_start, match_end |-> match_end,
         prefix |-> Slice(line_content, context_start, match_start),
         match |-> Slice(line_content, match_start, match_end),
         suffix |-> Slice(line_content, match_end, context_end)]

\* should_ignore(path)
should_ignore(i, ignore) ==
    MatchesAny(fs[i].name, GrepIgnorePatterns(ignore))

\* should_search_file(path)
should_search_file(i, ignore, file_pattern) ==
    IF should_ignore(i, ignore) THEN FALSE
    ELSE IF file_pattern # << >> THEN MatchesAny(fs[i].name, file_pattern)
    ELSE TRUE

\* CapReached with the comparison off by one
CapReachedStrict(m, max_results) ==
    Len(m) > max_results

\* the test "len(matches) >= max_results" of search_file
CapReached(m, max_results) ==
    Len(m) >= max_results

\* Whether open(file_path, 'r', ...) succeeds.
OpenSucceeds(i) ==
    fs[i].kind = "file" /\ fs[i].access \in {"ok", "readerr"}

\* SearchFileEnter that returns at the cap without setting results_truncated
SearchFileEnterNoFlag(f, max_results) ==
    IF CapReached(matches, max_results)
    THEN /\ stats' = [stats EXCEPT !.files_searched = @ + 1]
         /\ pc' = "grep_ret"
         /\ UNCHANGED <<opened, gcur, gline, file_matched>>
    ELSE /\ stats' = [stats EXCEPT !.files_searched = @ + 1]
         /\ opened' = opened \cup {f}
         /\ IF OpenSucceeds(f)
            THEN /\ gcur' = f
                 /\ gline' = 1
                 /\ file_matched' = FALSE
                 /\ pc' = "grep_lines"
            ELSE /\ pc' = "grep_loop"
                 /\ UNCHANGED <<gcur, gline, file_matched>>

\* SearchFileEnter in which a failing open ends the whole scan
SearchFileEnterFailStops(f, max_results) ==
    IF CapReached(matches, max_results)
    THEN /\ stats' = [stats EXCEPT !.files_searched = @ + 1,
                                   !.results_truncated = TRUE]
         /\ pc' = "grep_ret"
         /\ UNCHANGED <<opened, gcur, gline, file_matched>>
    ELSE /\ stats' = [stats EXCEPT !.files_searched = @ + 1]
         /\ opened' = opened \cup {f}
         /\ IF OpenSucceeds(f)
            THEN /\ gcur' = f
                 /\ gline' = 1
                 /\ file_matched' = FALSE
                 /\ pc' = "grep_lines"
            ELSE /\ pc' = "grep_ret"
                 /\ UNCHANGED <<gcur, gline, file_matched>>

\* SearchFileEnter without the cap test before the open
SearchFileEnterNoCapTest(f, max_results) ==
    /\ stats' = [stats EXCEPT !.files_searched = @ + 1]
    /\ opened' = opened \cup {f}
    /\ IF OpenSucceeds(f)
       THEN /\ gcur' = f
            /\ gline' = 1
            /\ file_matched' = FALSE
            /\ pc' = "grep_lines"
       ELSE /\ pc' = "grep_loop"
            /\ UNCHANGED <<gcur, gline, file_matched>>

\* search_file(f) up to its loop over the lines: the count, the cap test and
\* the open.
SearchFileEnter(f, max_results) ==
    IF CapReached(matches, max_results)
    THEN /\ stats' = [stats EXCEPT !.files_searched = @ + 1,
                                   !.results_truncated = TRUE]
         /\ pc' = "grep_ret"
         /\ UNCHANGED <<opened, gcur, gline, file_matched>>
    ELSE /\ stats' = [stats EXCEPT !.files_searched = @ + 1]
         /\ opened' = opened \cup {f}
         /\ IF OpenSucceeds(f)
            THEN /\ gcur' = f
                 /\ gline' = 1
                 /\ file_matched' = FALSE
                 /\ pc' = "grep_lines"
            ELSE /\ pc' = "grep_loop"
                 /\ UNCHANGED <<gcur, gline, file_matched>>

\* GrepValidate with the pattern compiled before the path is checked
GrepValidateRegexFirst(path, pattern) ==
    IF ~RegexCompiles(pattern) THEN "bad_regex"
    ELSE IF ~is_absolute(path) THEN "not_absolute"
    ELSE IF ~exists(path) THEN "not_found"
    ELSE "ok"

\* The checks grep_tool makes before it searches, in the order it makes them.
GrepValidate(path, pattern) ==
    IF ~is_absolute(path) THEN "not_absolute"
    ELSE IF ~exists(path) THEN "not_found"
    ELSE IF ~RegexCompiles(pattern) THEN "bad_regex"
    ELSE "ok"

\* BumpFilesMatched that counts every matching line
BumpFilesMatchedPerLine(already, n) ==
    n + 1

\* files_matched after a matching line: counted once per file
BumpFilesMatched(already, n) ==
    IF already THEN n ELSE n + 1

\* grep_tool up to the start of the search: path checks, re.compile, and for
\* a file path the filter test and the entry into search_file.
GrepCall ==
    /\ pc = "idle"
    /\ \E path \in PathArgs, pattern \in PatternArgs, recursive \in BOOLEAN,
          file_pattern \in FilePatternArgs, ignore \in GrepIgnoreArgs,
          case_sensitive \in BOOLEAN, max_results \in MaxResultsArgs :
          /\ args' = [NoArgs EXCEPT !.tool = "grep", !.path = path,
                        !.pattern = pattern, !.recursive = recursive,
                        !.file_pattern = file_pattern, !.ignore = ignore,
                        !.case_sensitive = case_sensitive,
                        !.max_results = max_results]
          /\ IF GrepValidate(path, pattern) # "ok"
             THEN /\ result' = Err(GrepValidate(path, pattern))
                  /\ pc' = "done"
                  /\ UNCHANGED <<opened, grepvars>>
             ELSE IF is_file(path.node)
             THEN IF should_search_file(path.node, ignore, file_pattern)
                  THEN /\ result' = result
                       /\ SearchFileEnter(path.node, max_results)
                       /\ UNCHANGED <<matches, paths, gfiles, scanned>>
                  ELSE /\ result' = Err("filtered")
                       /\ pc' = "done"
                       /\ UNCHANGED <<opened, grepvars>>
             ELSE /\ result' = result
                  /\ pc' = IF recursive THEN "grep_loop" ELSE "grep_iter"
                  /\ paths' = IF recursive THEN <<path.node>> ELSE << >>
                  /\ UNCHANGED <<opened, matches, stats, gfiles, gcur, gline,
                                 file_matched, scanned>>
    /\ UNCHANGED <<bashvars, fault, order, enumerated, treevars>>

\* The non-recursive branch: _path.iterdir().  Only PermissionError is caught.
GrepIterdir ==
    /\ pc = "grep_iter"
    /\ enumerated' = enumerated \cup {args.path.node}
    /\ IF fs[args.path.node].access = "ok"
       THEN /\ gfiles' = Children(args.path.node)
            /\ pc' = "grep_loop"
            /\ result' = result
       ELSE IF fs[args.path.node].access = "denied"
       THEN /\ result' = Err("no_permission")
            /\ pc' = "done"
            /\ UNCHANGED gfiles
       ELSE /\ result' = Raised("OSError")
            /\ pc' = "done"
            /\ UNCHANGED gfiles
    /\ UNCHANGED <<bashvars, fault, order, args, opened, treevars, matches, stats, paths,
                   gcur, gline, file_matched, scanned>>

\* PruneDirs that keeps every directory
PruneDirsNone(entries, ignore) ==
    SelectIds(entries, {i \in Nodes : is_dir(i)}, 1)

\* dirs[:] = [d for d in dirs if not should_ignore(Path(root) / d)], dirs
\* being the directories among the entries Path.walk() has scanned
PruneDirs(entries, ignore) ==
    SelectIds(entries, {i \in Nodes : is_dir(i) /\ ~should_ignore(i, ignore)}, 1)

\* One step of Path.walk(): the next directory is popped and scanned (a
\* failing scandir is skipped silently), its entries are split into
\* directories and the rest, the loop body prunes the ignored directories,
\* and the kept ones are pushed so that the first is visited next.
GrepWalk ==
    /\ pc = "grep_loop"
    /\ gfiles = << >>
    /\ paths # << >>
    /\ LET d == paths[Len(paths)]
           rest == SubSeq(paths, 1, Len(paths) - 1)
           entries == Children(d)
           dirs == PruneDirs(entries, args.ignore)
           files == SelectIds(entries, {i \in Nodes : ~is_dir(i)}, 1)
       IN  /\ enumerated' = enumerated \cup {d}
           /\ IF fs[d].access = "ok"
              THEN /\ gfiles' = files
                   /\ paths' = rest \o Reverse(dirs)
              ELSE /\ gfiles' = << >>
                   /\ paths' = rest
    /\ UNCHANGED <<bashvars, fault, order, pc, args, result, opened, treevars, matches,
                   stats, gcur, gline, file_matched, scanned>>

\* One turn of "for file in files" (recursive) or "for item in iterdir()"
\* (non-recursive): the filter tests, and search_file up to its first line.
GrepFile ==
    /\ pc = "grep_loop"
    /\ gfiles # << >>
    /\ LET f == Head(gfiles)
           wanted == /\ args.recursive \/ is_file(f)
                     /\ should_search_file(f, args.ignore, args.file_pattern)
       IN  /\ gfiles' = Tail(gfiles)
           /\ IF wanted
              THEN SearchFileEnter(f, args.max_results)
              ELSE UNCHANGED <<pc, stats, opened, gcur, gline, file_matched>>
    /\ UNCHANGED <<bashvars, fault, order, args, result, enumerated, treevars, matches,
                   paths, scanned>>

\* One turn of "for line_num, line in enumerate(f, 1)" of search_file.
GrepLine ==
    /\ pc = "grep_lines"
    /\ LET f == gcur
           lines == fs[f].lines
       IN  IF fs[f].access = "readerr" /\ gline = 2
           THEN \* the read raises; search_file swallows it
                /\ pc' = "grep_loop"
                /\ gcur' = NoNode
                /\ UNCHANGED <<matches, stats, gline, file_matched, scanned>>
           ELSE IF gline > Len(lines)
           THEN /\ pc' = "grep_loop"
                /\ gcur' = NoNode
                /\ UNCHANGED <<matches, stats, gline, file_matched, scanned>>
           ELSE IF CapReached(matches, args.max_results)
           THEN /\ stats' = [stats EXCEPT !.results_truncated = TRUE]
                /\ pc' = "grep_ret"
                /\ gcur' = NoNode
                /\ UNCHANGED <<matches, gline, file_matched, scanned>>
           ELSE LET at == RegexSearch(args.pattern, args.case_sensitive,
                                      lines[gline])
                IN  /\ scanned' = scanned \cup {<<f, gline>>}
                    /\ gline' = gline + 1
                    /\ pc' = pc
                    /\ gcur' = gcur
                    /\ IF at >= 0
                       THEN /\ file_matched' = TRUE
                            /\ stats' = [stats EXCEPT
                                 !.files_matched =
                                     BumpFilesMatched(file_matched, @),
                                 !.lines_matched = @ + 1]
                            /\ matches' = Append(matches,
                                 MatchResult(f, gline, lines[gline], at,
                                             args.pattern))
                       ELSE UNCHANGED <<matches, stats, file_matched>>
    /\ UNCHANGED <<bashvars, fault, order, args, result, enumerated, opened, treevars,
                   paths, gfiles>>

\* The loops are over (exhausted, or left by break): return the result.
GrepReturn ==
    /\ \/ pc = "grep_ret"
       \/ pc = "grep_loop" /\ gfiles = << >> /\ paths = << >>
    /\ result' = [NoResult EXCEPT !.status = "success"]
    /\ pc' = "done"
    /\ UNCHANGED <<bashvars, fault, order, args, enumerated, opened, treevars, grepvars>>

Next ==
    \/ LsCall
    \/ TreeCall
    \/ TreeStep
    \/ TreeDescend
    \/ TreeReturn
    \/ GrepCall
    \/ GrepIterdir
    \/ GrepWalk
    \/ GrepFile
    \/ GrepLine
    \/ GrepReturn

\* All three tools: one call of any of them.
Spec == Init /\ [][Next]_vars

\* ---------------------------------------------------------------- bash

\* BashTerminal(project_workspace): the object constructed next.
NewTerminal ==
    CHOOSE t \in TerminalIds :
       terminals[t] = "unborn" /\ \A u \in TerminalIds : terminals[u] = "unborn" => t <= u

\* The terminals after close() on terminal t: closed when it returns; when
\* it raises the terminal is left broken, which is not counted as closed.
AfterClose(t, close_ok) ==
    [terminals EXCEPT ![t] = IF close_ok THEN "closed" ELSE "broken"]

\* bash_tool(command, reset_cwd): one call, start to return.  ctor_ok,
\* close_ok and exec_ok say whether BashTerminal(...), close() and execute()
\* return or raise, if the call gets to them.
BashCall(reset_cwd, ctor_ok, close_ok, exec_ok) ==
    /\ bash_calls < MaxBashCalls
    /\ bash_calls' = bash_calls + 1
    /\ IF keep_alive_terminal = NoTerminal
       THEN IF ctor_ok
            THEN /\ keep_alive_terminal' = NewTerminal
                 /\ terminals' = [terminals EXCEPT ![NewTerminal] = "open"]
                 /\ executed' = executed \cup {<<NewTerminal, "open">>}
                 /\ bash_result' = IF exec_ok THEN "success" ELSE "error"
                 /\ UNCHANGED close_calls
            ELSE /\ bash_result' = "error"
                 /\ UNCHANGED <<keep_alive_terminal, terminals, close_calls,
                                executed>>
       ELSE IF reset_cwd
       THEN /\ close_calls' =
                  [close_calls EXCEPT ![keep_alive_terminal] = @ + 1]
            /\ IF close_ok /\ ctor_ok
               THEN /\ keep_alive_terminal' = NewTerminal
                    /\ terminals' =
                          [AfterClose(keep_alive_terminal, TRUE)
                             EXCEPT ![NewTerminal] = "open"]
                    /\ executed' = executed \cup {<<NewTerminal, "open">>}
                    /\ bash_result' = IF exec_ok THEN "success" ELSE "error"
               ELSE /\ terminals' = AfterClose(keep_alive_terminal, close_ok)
                    /\ bash_result' = "error"
                    /\ UNCHANGED <<keep_alive_terminal, executed>>
       ELSE /\ executed' = executed \cup
                  {<<keep_alive_terminal, terminals[keep_alive_terminal]>>}
            /\ bash_result' = IF exec_ok THEN "success" ELSE "error"
            /\ UNCHANGED <<keep_alive_terminal, terminals, close_calls>>
    /\ UNCHANGED <<fault, order, pc, args, result, enumerated, opened,
                   treevars, grepvars>>

BashStep ==
    \E reset_cwd \in BOOLEAN, ctor_ok \in BOOLEAN, close_ok \in BOOLEAN,
       exec_ok \in BOOLEAN : BashCall(reset_cwd, ctor_ok, close_ok, exec_ok)

\* The process before its first bash_tool call.
InitBash ==
    /\ fault = [node |-> 0, mode |-> "none"]
    /\ order = "fwd"
    /\ NoCall

NextBash ==
    \/ BashStep

\* Any sequence of bash_tool calls.
SpecBash == InitBash /\ [][NextBash]_vars

NextLs ==
    \/ LsCall

\* One call of ls_tool.
SpecLs == Init /\ [][NextLs]_vars

NextGrep ==
    \/ GrepCall
    \/ GrepIterdir
    \/ GrepWalk
    \/ GrepFile
    \/ GrepLine
    \/ GrepReturn

\* One call of grep_tool.
SpecGrep == Init /\ [][NextGrep]_vars

NextTree ==
    \/ TreeCall
    \/ TreeStep
    \/ TreeDescend
    \/ TreeReturn

\* One call of tree_tool.
SpecTree == Init /\ [][NextTree]_vars

\* A workspace in which another process is at work: some entry may be
\* missing at first.
InitRace ==
    /\ fault \in RaceFaults
    /\ order = "fwd"
    /\ NoCall

NextTreeRace ==
    \/ TreeCall
    \/ TreeStep
    \/ TreeDescend
    \/ TreeReturn
    \/ FsChange

\* One call of tree_tool while another process changes the walked
\* directories.
SpecTreeRace == InitRace /\ [][NextTreeRace]_vars

\* -------------------------------------------------------------- claims

GrepRunning == args.tool = "grep" /\ pc # "idle"

GrepSucceeded ==
    args.tool = "grep" /\ pc = "done" /\ result.status = "success"

\* Whether the name of entry i matches an ignore pattern of grep_tool, and
\* whether it passes the ignore patterns and the file patterns.
NameIgnored(i, ignore) ==
    \E k \in 1..Len(GrepIgnorePatterns(ignore)) :
       fnmatch(BaseFs[i].name, GrepIgnorePatterns(ignore)[k])

NameWanted(i, ignore, file_pattern) ==
    /\ ~NameIgnored(i, ignore)
    /\ file_pattern # << >> =>
          \E k \in 1..Len(file_pattern) : fnmatch(BaseFs[i].name, file_pattern[k])

\* Whether Path.walk from `root` hands out the entries of directory d of the
\* filesystem f, when directories matching `ignore` are pruned.
RECURSIVE WalkReachesIn(_, _, _, _)
WalkReachesIn(f, d, root, ignore) ==
    IF d = root THEN f[d].access = "ok"
    ELSE /\ d # 0
         /\ f[d].kind = "dir"
         /\ ~NameIgnored(d, ignore)
         /\ f[d].access = "ok"
         /\ WalkReachesIn(f, f[d].parent, root, ignore)

WalkReaches(d, root) ==
    WalkReachesIn(fs, d, root, args.ignore)

\* The files a call is to search when no cap stops it, read off the
\* filesystem and the arguments.
CandidatesIn(f, root, recursive, ignore, file_pattern) ==
    IF f[root].kind = "file"
    THEN IF NameWanted(root, ignore, file_pattern) THEN {root} ELSE {}
    ELSE IF recursive
    THEN {x \in Nodes \ {0} :
            /\ f[x].kind # "dir"
            /\ WalkReachesIn(f, f[x].parent, root, ignore)
            /\ NameWanted(x, ignore, file_pattern)}
    ELSE {x \in Nodes \ {0} :
            /\ f[x].parent = root
            /\ f[root].access = "ok"
            /\ f[x].kind = "file"
            /\ NameWanted(x, ignore, file_pattern)}

\* The entries a path argument can name.
PathNodes ==
    {p.node : p \in PathArgs} \ {NoNode}

\* CandidatesIn for every filesystem and every choice of arguments.
CandidateTable ==
    [x \in Faults \X PathNodes \X BOOLEAN \X GrepIgnoreArgs \X FilePatternArgs
       |-> CandidatesIn(FsTable[x[1]], x[2], x[3], x[4], x[5])] @@ << >>

\* The candidate files of the running call.
GrepCandidates ==
    IF ~exists(args.path) THEN {}
    ELSE CandidateTable[<<fault, args.path.node, args.recursive, args.ignore,
                          args.file_pattern>>]

\* The lines of f that a read can deliver.
ReadableLines(f) ==
    IF fs[f].access = "readerr" THEN Min(1, Len(fs[f].lines))
    ELSE Len(fs[f].lines)

\* f was never opened, or was opened and a line it delivers was not searched.
LeftUnscanned(f) ==
    \/ f \notin opened
    \/ /\ OpenSucceeds(f)
       /\ \E k \in 1..ReadableLines(f) : <<f, k>> \notin scanned

\* C1 (as stated): a successful grep_tool call returns at most max_results
\* matches, for every max_results, negative ones included.
C1_Original ==
    GrepSucceeded => Len(matches) <= args.max_results

\* C1 (amended): at every point of a grep_tool call the number of matches is
\* at most max(max_results, 0): at most max_results when it is not negative,
\* and none at all when it is negative.
C1_MatchesWithinCap ==
    GrepRunning => Len(matches) <= Max(args.max_results, 0)

\* C1 witness: a call returned with exactly max_results > 0 matches and was
\* stopped by the cap.
C1_Witness ==
    /\ GrepSucceeded
    /\ args.max_results > 0
    /\ Len(matches) = args.max_results
    /\ stats.results_truncated

\* C2: in a successful grep_tool result, results_truncated is true exactly
\* when a candidate file was left unopened, or a line of an opened file left
\* unsearched, and then the matches had reached max_results.
C2_TruncatedIffCapStopped ==
    GrepSucceeded =>
        /\ stats.results_truncated <=> (\E f \in GrepCandidates : LeftUnscanned(f))
        /\ stats.results_truncated => Len(matches) >= args.max_results

\* C2 witness: truncated in the middle of a file, after the cap was reached
\* with max_results > 0.
C2_Witness ==
    /\ GrepSucceeded
    /\ stats.results_truncated
    /\ args.max_results > 0
    /\ \E f \in opened : OpenSucceeds(f) /\ LeftUnscanned(f)

\* C2 second case: the cap was reached exactly at the end of the last
\* candidate, so nothing was left and the flag is false.
C2_WitnessExact ==
    /\ GrepSucceeded
    /\ ~stats.results_truncated
    /\ args.max_results > 0
    /\ Len(matches) = args.max_results

\* C3 (as stated): whatever fails in the filesystem, each of the three tools
\* returns a dict with status "success" or "error"; no exception leaves it.
C3_NoExceptionEscapes ==
    pc = "done" => result.status \in {"success", "error"}

\* C4: in each of the three tools a path that is not absolute gives the
\* "not absolute" error and an absolute path that does not exist gives the
\* "not found" error, whatever the other arguments are (a malformed regex,
\* an out-of-range max_depth), and nothing is enumerated or opened.
C4_PathChecksFirst ==
    args.tool # "none" =>
        /\ ~is_absolute(args.path) =>
              /\ pc = "done"
              /\ result = Err("not_absolute")
              /\ enumerated = {} /\ opened = {}
        /\ is_absolute(args.path) /\ ~exists(args.path) =>
              /\ pc = "done"
              /\ result = Err("not_found")
              /\ enumerated = {} /\ opened = {}

\* C4 witness: grep_tool was given a relative path together with a regex
\* that does not compile, and answered "not absolute".
C4_Witness ==
    /\ pc = "done"
    /\ args.tool = "grep"
    /\ ~is_absolute(args.path)
    /\ ~RegexCompiles(args.pattern)
    /\ result.msg = "not_absolute"

TreeActive == args.tool = "tree" /\ pc \in {"tree", "done"}

TreeSucceeded ==
    args.tool = "tree" /\ pc = "done" /\ result.status = "success"

\* The nesting depth of node n of tree t: 1 at the top level, one more per
\* enclosing children list.
RECURSIVE NestDepth(_, _)
NestDepth(t, n) ==
    IF t[n].up = 0 THEN 1 ELSE 1 + NestDepth(t, t[n].up)

\* clamp(d, 1, 3)
EffectiveDepth(d) ==
    IF d < 1 THEN 1 ELSE IF d > 3 THEN 3 ELSE d

\* C5 (as stated): with e = clamp(max_depth, 1, 3), no node is nested deeper
\* than e, every directory node above depth e carries a children list, and
\* no node at depth e does.
C5_Original ==
    (TreeActive /\ result.status # "error") =>
        LET e == EffectiveDepth(args.max_depth)
        IN  \A n \in 1..Len(tree_out) :
               /\ NestDepth(tree_out, n) <= e
               /\ (tree_out[n].type = "directory" /\ NestDepth(tree_out, n) < e)
                     => tree_out[n].children
               /\ NestDepth(tree_out, n) = e => ~tree_out[n].children

\* C5 (amended): with e = clamp(max_depth, 1, 3), no node is nested deeper
\* than e (so never deeper than 3), only directory nodes above depth e carry
\* a children list, every directory node above depth e that carries no error
\* string carries one, and no node at depth e does.
C5_DepthClamped ==
    (TreeActive /\ result.status # "error") =>
        LET e == EffectiveDepth(args.max_depth)
        IN  /\ result.max_depth = e
            /\ \A n \in 1..Len(tree_out) :
                  /\ NestDepth(tree_out, n) <= e
                  /\ NestDepth(tree_out, n) <= 3
                  /\ tree_out[n].children =>
                        /\ tree_out[n].type = "directory"
                        /\ NestDepth(tree_out, n) < e
                  /\ ( /\ tree_out[n].type = "directory"
                       /\ tree_out[n].error = ""
                       /\ NestDepth(tree_out, n) < e ) => tree_out[n].children
                  /\ NestDepth(tree_out, n) = e => ~tree_out[n].children

\* C5 witness: max_depth above 3 was asked for, and a directory that is not
\* empty on disk sits at depth 3 of the result without a children field.
C5_Witness ==
    /\ TreeSucceeded
    /\ args.max_depth > 3
    /\ \E n \in 1..Len(tree_out) :
          /\ tree_out[n].type = "directory"
          /\ tree_out[n].error = ""
          /\ NestDepth(tree_out, n) = 3
          /\ ~tree_out[n].children
          /\ \E j \in Nodes : j # 0 /\ fs[j].parent = tree_out[n].id

LsSucceeded ==
    args.tool = "ls" /\ pc = "done" /\ result.status = "success"

\* An item of ls_tool without the "/" that marks a directory.
ItemName(item) ==
    IF item # << >> /\ item[Len(item)] = "/"
    THEN SubSeq(item, 1, Len(item) - 1) ELSE item

IsDirItem(item) ==
    item # << >> /\ item[Len(item)] = "/"

\* Whether a name matches one of the patterns of a list.
Denied(n, patterns) ==
    \E k \in 1..Len(patterns) : fnmatch(n, patterns[k])

\* C6: whatever ignore list the caller gives, an entry whose name matches a
\* built-in deny pattern of the tool is not in the tool's result: not among
\* the items of ls_tool, not a node of tree_tool, and neither opened nor
\* reported in a match by grep_tool when met in a directory.
C6_DefaultsAlwaysApply ==
    /\ LsSucceeded =>
          \A k \in 1..Len(result.items) :
             ~Denied(ItemName(result.items[k]), LsDefaultIgnore)
    /\ TreeActive =>
          \A n \in 1..Len(tree_out) :
             tree_out[n].id = args.path.node
             \/ ~Denied(fs[tree_out[n].id].name, TreeDefaultIgnore)
    /\ GrepRunning =>
          /\ \A f \in opened : ~Denied(fs[f].name, GrepDefaultIgnore)
          /\ \A k \in 1..Len(matches) :
                ~Denied(fs[matches[k].file].name, GrepDefaultIgnore)

\* C6 witness: ls_tool listed a directory that holds an entry matching a
\* built-in pattern, with a caller's ignore list that does not mention it.
C6_Witness ==
    /\ LsSucceeded
    /\ args.ignore # << >>
    /\ result.items # << >>
    /\ \E i \in Nodes :
          /\ i # 0
          /\ fs[i].parent = args.path.node
          /\ Denied(fs[i].name, LsDefaultIgnore)
          /\ ~Denied(fs[i].name, args.ignore)

\* C7 (as stated): the three tools share one built-in deny set: a name met
\* by grep_tool is excluded by its defaults exactly when the defaults of
\* ls_tool and of tree_tool exclude it, so grep_tool never opens a file that
\* ls_tool and tree_tool would hide (x.swp).
C7_SharedDenySet ==
    GrepRunning =>
        \A f \in opened :
           /\ Denied(fs[f].name, GrepDefaultIgnore)
                <=> Denied(fs[f].name, LsDefaultIgnore)
           /\ Denied(fs[f].name, GrepDefaultIgnore)
                <=> Denied(fs[f].name, TreeDefaultIgnore)

\* C8 (as stated): in a successful ls_tool result every directory item (with
\* the trailing "/") comes before every other item, and inside each of the
\* two groups the names are in case-insensitive order, whatever kinds of
\* entries the directory holds.
C8_DirsFirstThenByName ==
    LsSucceeded =>
        \A j \in 1..Len(result.items), k \in 1..Len(result.items) :
           j < k =>
              /\ IsDirItem(result.items[k]) => IsDirItem(result.items[j])
              /\ IsDirItem(result.items[j]) = IsDirItem(result.items[k]) =>
                    ~StrLess(Lower(ItemName(result.items[k])),
                             Lower(ItemName(result.items[j])))

\* The entries on the way from entry i up to (not including) directory root;
\* {0} marks an entry that is not below root.
RECURSIVE PathFrom(_, _)
PathFrom(i, root) ==
    IF i = root THEN {}
    ELSE IF i = 0 THEN {0}
    ELSE {i} \cup PathFrom(fs[i].parent, root)

\* C9: with a non-empty match list, tree_tool reports an entry only if its
\* name and the names of all directories between it and the root match a
\* pattern, and it enumerates no directory whose name matches none: a
\* directory that fails the match is left out with everything below it.
C9_UnmatchedSubtreeExcluded ==
    (TreeActive /\ args.match # << >>) =>
        /\ \A n \in 1..Len(tree_out) :
              \A i \in PathFrom(tree_out[n].id, args.path.node) :
                 Denied(fs[i].name, args.match)
        /\ \A d \in enumerated :
              \A i \in PathFrom(d, args.path.node) :
                 Denied(fs[i].name, args.match)

\* C9 witness: a directory fails the match list and holds a file that
\* matches it; the walk is over and neither is in the tree.
C9_Witness ==
    /\ TreeSucceeded
    /\ args.match # << >>
    /\ \E d \in Nodes, f \in Nodes :
          /\ fs[d].parent = args.path.node
          /\ is_dir(d)
          /\ ~Denied(fs[d].name, args.match)
          /\ ~Denied(fs[d].name, TreeIgnorePatterns(args.ignore))
          /\ fs[f].parent = d
          /\ Denied(fs[f].name, args.match)
          /\ d \notin enumerated
          /\ \A n \in 1..Len(tree_out) : tree_out[n].id \notin {d, f}

\* C10: at every point of a grep_tool call files_matched is the number of
\* distinct files with a match recorded and is at most files_searched, and
\* every file whose open was attempted is counted in files_searched; when
\* the call is over files_searched is at most the number of candidate files,
\* and equals it, unreadable candidates included, when the call succeeded
\* without truncation.
C10_FileCounts ==
    GrepRunning =>
        /\ stats.files_matched =
              Cardinality({matches[k].file : k \in 1..Len(matches)})
        /\ stats.files_matched <= stats.files_searched
        /\ Cardinality(opened) <= stats.files_searched
        /\ pc = "done" =>
              /\ stats.files_searched <= Cardinality(GrepCandidates)
              /\ (result.status = "success" /\ ~stats.results_truncated) =>
                    stats.files_searched = Cardinality(GrepCandidates)

\* C10 witness: a successful search of several files, one of which could not
\* be opened and one of which has more than one matching line.
C10_Witness ==
    /\ GrepSucceeded
    /\ stats.files_searched > stats.files_matched
    /\ stats.lines_matched > stats.files_matched
    /\ stats.files_matched > 1
    /\ \E f \in opened : ~OpenSucceeds(f)

\* The nodes of the tree built for entry d.
NodesOf(d) ==
    {n \in 1..Len(tree_out) : tree_out[n].id = d}

\* C11 (as stated): a directory whose enumeration failed is in the returned
\* tree exactly once, as a node of type directory with an error string and
\* without a children list; the call succeeds, and the entries next to that
\* directory that pass the filters are in the tree.
C11_FailedDirIsOneLeaf ==
    (args.tool = "tree" /\ pc = "done" /\ enumerated # {}) =>
        /\ result.status = "success"
        /\ \A d \in enumerated :
              fs[d].access # "ok" =>
                 /\ Cardinality(NodesOf(d)) = 1
                 /\ \A n \in NodesOf(d) :
                       /\ tree_out[n].type = "directory"
                       /\ tree_out[n].error # ""
                       /\ ~tree_out[n].children
                 /\ \A j \in Nodes :
                       ( /\ j # 0 /\ j # d /\ d # args.path.node
                         /\ fs[j].parent = fs[d].parent
                         /\ ~TreeShouldIgnore(j, args.ignore)
                         /\ TreeMatched(j, args.match) ) => NodesOf(j) # {}

\* The entries on the way from entry i up to (not including) directory root
\* in the filesystem f; {0} marks an entry that is not below root.
RECURSIVE PathIn(_, _, _)
PathIn(f, i, root) ==
    IF i = root THEN {}
    ELSE IF i = 0 THEN {0}
    ELSE {i} \cup PathIn(f, f[i].parent, root)

\* The entries below `root` that lie beneath a directory whose name matches
\* an ignore pattern.
PrunedIn(f, root, ignore) ==
    {x \in Nodes :
        /\ 0 \notin PathIn(f, x, root)
        /\ \E d \in PathIn(f, x, root) :
              d # x /\ f[d].kind = "dir" /\ NameIgnored(d, ignore)}

\* The files and other non-directories below `root`.
FilesBelow(f, root) ==
    {x \in Nodes : x # root /\ 0 \notin PathIn(f, x, root) /\ f[x].kind # "dir"}

PrunedTable ==
    [x \in Faults \X PathNodes \X GrepIgnoreArgs
       |-> [pruned |-> PrunedIn(FsTable[x[1]], x[2], x[3]),
            kept |-> Cardinality(FilesBelow(FsTable[x[1]], x[2])
                                 \ PrunedIn(FsTable[x[1]], x[2], x[3]))]] @@ << >>

\* What the running call prunes below its root, and the number of files it
\* does not prune.
Pruned == PrunedTable[<<fault, args.path.node, args.ignore>>].pruned

Unpruned == PrunedTable[<<fault, args.path.node, args.ignore>>].kept

\* C12: in a recursive grep_tool call over a directory, a subdirectory whose
\* name matches an ignore pattern is never enumerated, and of the entries
\* beneath it none is enumerated, opened, searched or reported in a match;
\* when the call is over files_searched counts only files outside the pruned
\* subtrees.
C12_IgnoredSubtreePruned ==
    (GrepRunning /\ args.recursive /\ exists(args.path)
       /\ is_dir(args.path.node)) =>
        /\ \A d \in enumerated :
              d # args.path.node => ~NameIgnored(d, args.ignore)
        /\ enumerated \cap Pruned = {}
        /\ opened \cap Pruned = {}
        /\ \A x \in scanned : x[1] \notin Pruned
        /\ \A k \in 1..Len(matches) : matches[k].file \notin Pruned
        /\ pc = "done" => stats.files_searched <= Unpruned

\* C12 witness: a recursive search from the root is over without truncation;
\* the caller's list prunes A and the built-in list prunes .git, and both hold
\* a file with a match that passes should_search_file.
C12_Witness ==
    /\ GrepSucceeded
    /\ args.recursive
    /\ args.path.node = 0
    /\ ~stats.results_truncated
    /\ matches # << >>
    /\ \E f \in Nodes, g \in Nodes :
          /\ fs[f].parent = 2 /\ should_ignore(2, args.ignore)
          /\ fs[g].parent = 5 /\ should_ignore(5, args.ignore)
          /\ is_file(f) /\ is_file(g)
          /\ should_search_file(f, args.ignore, args.file_pattern)
          /\ should_search_file(g, args.ignore, args.file_pattern)
          /\ f \notin opened /\ g \notin opened

\* The 0-based offsets at which a pattern occurs in a line, read off the
\* text: with case_sensitive false the letters are compared folded.
OccurrencesIn(pattern, case_sensitive, line) ==
    {a \in 0..(Len(line) - Len(pattern)) :
        \A k \in 1..Len(pattern) :
           IF case_sensitive
           THEN line[a + k] = pattern[k]
           ELSE LowerChar(line[a + k]) = LowerChar(pattern[k])}

\* The lines of the files of the workspace, as <<file, line number>>.
FileLines ==
    UNION {{<<f, k>> : k \in 1..Len(BaseFs[f].lines)} : f \in Nodes}

\* OccurrencesIn and the line without its terminator, for every line and
\* every choice of arguments.
OccurrenceTable ==
    [x \in FileLines \X PatternArgs \X BOOLEAN
       |-> OccurrencesIn(x[2], x[3], BaseFs[x[1][1]].lines[x[1][2]])] @@ << >>

ContentTable ==
    [x \in FileLines |-> RStrip(BaseFs[x[1]].lines[x[2]])] @@ << >>

\* The offsets at which the pattern of the call occurs in line k of file f.
Occurrences(f, k) ==
    OccurrenceTable[<< <<f, k>>, args.pattern, args.case_sensitive >>]

\* The lines of f that a read delivers and the pattern of the call matches.
MatchingLines(f) ==
    {k \in 1..ReadableLines(f) : Occurrences(f, k) # {}}

\* The candidate file whose open or read fails, if the faulty entry is one.
FailingFiles ==
    {f \in GrepCandidates :
        /\ f = fault.node
        /\ fault.mode \in {"denied", "ioerr", "readerr", "other"}}

\* C13: when grep_tool over a directory meets a candidate file whose open or
\* read fails, the call returns status success; unless the cap stopped the
\* scan, every other candidate file was opened and each of its matching lines
\* is in matches, as are the matches of the lines read before the failure.
C13_UnreadableFileSkipped ==
    ( /\ args.tool = "grep" /\ pc = "done"
      /\ exists(args.path) /\ is_dir(args.path.node)
      /\ FailingFiles \cap opened # {} ) =>
        /\ result.status = "success"
        /\ ~stats.results_truncated =>
              \A g \in GrepCandidates :
                 /\ g \in opened
                 /\ OpenSucceeds(g) =>
                       \A k \in MatchingLines(g) :
                          \E m \in 1..Len(matches) :
                             matches[m].file = g /\ matches[m].line = k

\* C13 witness: a search over a directory is over, a candidate met before
\* the last one could not be opened, and files opened after it have matches.
C13_Witness ==
    /\ GrepSucceeded
    /\ is_dir(args.path.node)
    /\ ~args.recursive
    /\ order = "fwd"
    /\ ~stats.results_truncated
    /\ \E f \in FailingFiles :
          /\ ~OpenSucceeds(f)
          /\ f \in opened
          /\ \E g \in opened : g > f /\ MatchingLines(g) # {}
          /\ \E m \in 1..Len(matches) : matches[m].file > f

\* C14: in a successful tree_tool result, directories is the number of nodes
\* of type directory and files the number of nodes of type file in the whole
\* tree, and total = directories + files = the number of nodes.
C14_CountsAreNodeCounts ==
    TreeSucceeded =>
        /\ result.directories =
              Cardinality({n \in 1..Len(tree_out) : tree_out[n].type = "directory"})
        /\ result.files =
              Cardinality({n \in 1..Len(tree_out) : tree_out[n].type = "file"})
        /\ result.total = result.directories + result.files
        /\ result.total = Len(tree_out)

\* C14 witness: a tree with files and directories on three levels.
C14_Witness ==
    /\ TreeSucceeded
    /\ result.files >= 2
    /\ result.directories >= 2
    /\ \E n \in 1..Len(tree_out) :
          tree_out[n].type = "file" /\ NestDepth(tree_out, n) = 3

\* The names of the direct children of the listed directory that pass the
\* match list (every name when it is empty) and no ignore pattern.
LsExpected ==
    {fs[i].name : i \in {j \in Nodes :
        /\ j # 0
        /\ fs[j].parent = args.path.node
        /\ (args.match = << >> \/ Denied(fs[j].name, args.match))
        /\ ~Denied(fs[j].name, args.ignore)
        /\ ~Denied(fs[j].name, LsDefaultIgnore)}}

\* C15: a successful ls_tool call returns each direct child of path whose
\* name matches a match pattern (each child when match is absent or empty)
\* and no ignore pattern, caller's or built-in, returns it once and returns
\* nothing else; count is the number of items.
C15_ExactlyMatchedNotIgnored ==
    LsSucceeded =>
        /\ {ItemName(result.items[k]) : k \in 1..Len(result.items)} = LsExpected
        /\ Len(result.items) = Cardinality(LsExpected)
        /\ result.count = Len(result.items)

\* C15 witness: a listing with a match list and a caller's ignore list, in
\* which one child matches both and is left out, one matches the match list
\* only and is returned, and one fails the match list.
C15_Witness ==
    /\ LsSucceeded
    /\ args.match # << >>
    /\ args.ignore # << >>
    /\ result.count > 0
    /\ \E i \in Nodes, j \in Nodes :
          /\ i # 0 /\ j # 0
          /\ fs[i].parent = args.path.node
          /\ fs[j].parent = args.path.node
          /\ Denied(fs[i].name, args.match)
          /\ Denied(fs[i].name, args.ignore)
          /\ ~Denied(fs[j].name, args.match)
          /\ ~Denied(fs[j].name, args.ignore \o LsDefaultIgnore)

\* grep_tool is at work and its matches have reached max_results.
CapHit ==
    GrepRunning /\ pc # "done" /\ CapReached(matches, args.max_results)

\* C16 (as stated): once the number of matches equals max_results > 0, every
\* further step of the call accepts no match, opens no file, enumerates no
\* directory and leaves results_truncated true.
C16_Original ==
    [][ (CapHit /\ args.max_results > 0 /\ Len(matches) = args.max_results) =>
          /\ matches' = matches
          /\ opened' = opened
          /\ enumerated' = enumerated
          /\ stats'.results_truncated ]_vars

\* C16 (amended): once the matches have reached max_results no match is
\* accepted, no file is opened and no line is searched; the next entry into
\* search_file and the next line read from the open file set
\* results_truncated and end the scan, and once results_truncated is set the
\* call returns without enumerating anything more.
C16_CapStopsScan ==
    [][ CapHit =>
          /\ matches' = matches
          /\ opened' = opened
          /\ scanned' = scanned
          /\ stats'.files_searched # stats.files_searched =>
                stats'.results_truncated /\ pc' = "grep_ret"
          /\ (pc = "grep_lines" /\ gline <= ReadableLines(gcur)) =>
                stats'.results_truncated /\ pc' = "grep_ret"
          /\ stats.results_truncated =>
                pc' = "done" /\ enumerated' = enumerated ]_vars

\* C16 witness: a recursive search returned truncated with exactly
\* max_results > 0 matches, leaving a candidate file unopened and a
\* directory of the walk unenumerated.
C16_Witness ==
    /\ GrepSucceeded
    /\ args.recursive
    /\ args.max_results > 0
    /\ Len(matches) = args.max_results
    /\ stats.results_truncated
    /\ \E f \in GrepCandidates : f \notin opened
    /\ \E d \in Nodes :
          /\ d # 0 /\ is_dir(d)
          /\ WalkReaches(d, args.path.node)
          /\ d \notin enumerated

\* C17: the matches of one file are contiguous in the list and have strictly
\* increasing line numbers (so at most one match per line); line numbers
\* start at 1; content is the line without its terminator, and the match
\* recorded is the leftmost occurrence of the pattern in the line.
C17_FirstMatchPerLineInOrder ==
    GrepRunning =>
        /\ \A j \in 1..Len(matches), k \in 1..Len(matches) :
              (j < k /\ matches[j].file = matches[k].file) =>
                 /\ matches[j].line < matches[k].line
                 /\ \A l \in j..k : matches[l].file = matches[j].file
        /\ \A k \in 1..Len(matches) :
              LET m == matches[k]
              IN  /\ m.line >= 1
                  /\ <<m.file, m.line>> \in FileLines
                  /\ m.content = ContentTable[<<m.file, m.line>>]
                  /\ m.match_start \in Occurrences(m.file, m.line)
                  /\ \A a \in Occurrences(m.file, m.line) : m.match_start <= a
                  /\ m.match_end = m.match_start + Len(args.pattern)

\* C17 witness: a match was recorded at the first of two occurrences in one
\* line, and a file has matches on two lines with a line between them.
C17_Witness ==
    /\ GrepSucceeded
    /\ \E k \in 1..Len(matches) :
          Cardinality(Occurrences(matches[k].file, matches[k].line)) > 1
    /\ \E j \in 1..Len(matches), k \in 1..Len(matches) :
          /\ matches[j].file = matches[k].file
          /\ matches[k].line > matches[j].line + 1

\* s occurs in t starting at 0-based offset a
OccursAt(s, t, a) ==
    /\ a >= 0
    /\ a + Len(s) <= Len(t)
    /\ SubSeq(t, a + 1, a + Len(s)) = s

\* C18 (as stated): for every match, 0 <= match_start <= match_end <=
\* len(content); prefix is the min(10, match_start) characters of content
\* before match_start, suffix the characters of content after match_end, at
\* most 10 and clipped to the end of content, and prefix + match + suffix
\* occurs in content at match_start - len(prefix).
C18_ContextWindows ==
    GrepRunning =>
        \A k \in 1..Len(matches) :
           LET m == matches[k]
               n == Len(m.content)
           IN  /\ 0 <= m.match_start
               /\ m.match_start <= m.match_end
               /\ m.match_end <= n
               /\ Len(m.prefix) = Min(ContextChars, m.match_start)
               /\ OccursAt(m.prefix, m.content, m.match_start - Len(m.prefix))
               /\ Len(m.suffix) = Min(ContextChars, n - m.match_end)
               /\ OccursAt(m.suffix, m.content, m.match_end)
               /\ OccursAt(m.prefix \o m.match \o m.suffix, m.content,
                           m.match_start - Len(m.prefix))

\* C19 (as stated): in a successful grep_tool result with max_results > 0,
\* files_searched is the number of files whose open was attempted.
C19_SearchedCountsOpens ==
    (GrepSucceeded /\ args.max_results > 0) =>
        stats.files_searched = Cardinality(opened)

\* C20 (as stated): every node of the tree that carries a children list has
\* type "directory", also when another process replaces, deletes or creates
\* entries during the walk.
C20_ChildrenOnlyOnDirectories ==
    TreeActive =>
        \A n \in 1..Len(tree_out) :
           tree_out[n].children => tree_out[n].type = "directory"

\* C21 (as stated): after any sequence of bash_tool calls keep_alive_terminal
\* is None or a terminal that has not been closed, no command was executed
\* on a closed terminal, and close() was called at most once on any terminal.
C21_GlobalTerminalNeverClosed ==
    /\ keep_alive_terminal # NoTerminal =>
          terminals[keep_alive_terminal] # "closed"
    /\ \A x \in executed : x[2] # "closed"
    /\ \A t \in TerminalIds : close_calls[t] <= 1

====
